---- MODULE Spec2Model ----
(***************************************************************************)
(* A model of glowie's streaming geometry pipeline: the sample queue       *)
(* between the audio callback and App::update (src/src/main.rs), and       *)
(* Scope's backlog, segment generation, tile binning, tile directory and   *)
(* front/back decay surfaces (src/src/scope.rs).                           *)
(*                                                                         *)
(* Numbers.  A sample frame [f32; 2] is a pair <<x, y>> of integers in     *)
(* units of 1/16, so 1.0 is 16 and the centre of tile column x,            *)
(* (x - 7.5) / 8.0, is the integer 2x - 15.  Every value the model feeds   *)
(* to the geometry is a multiple of 1/16 and the tests are evaluated in    *)
(* exact arithmetic.  A 32-bit word is the pair <<low half, high half>>    *)
(* of its 16-bit halves, since a word does not fit a 32-bit signed integer.*)
(***************************************************************************)
EXTENDS Integers, Sequences, FiniteSets, TLC

\* const MAX_LINES: usize = 65536
MAX_LINES == 65536

\* ThingBuf::new(4096)
SAMPLE_BUF_CAPACITY == 4096

\* the model's unit: 1.0 is Unit sixteenths
Unit == 2 * 8

\* the range of a u16
U16 == 2 ^ 16

\* the 16 x 16 tiles, row-major
Tiles == 0 .. 255

\* ------------------------------------------------------------------ bounds

\* frames the audio callback offers to the sample queue
MaxOffered == 2

\* viewport resizes delivered
MaxResizes == 1

\* frames in a long batch given to Scope::extend at once
BurstLen == 1500

\* batches given to Scope::extend
MaxBursts == 2

\* frames App::update pops from a full queue
MaxPops == 2

\* times get_current_texture returns Lost within one tick
MaxLost == 1

\* the largest denominator of a coordinate given to pack16snorm
MaxDen == 64

\* ------------------------------------------------------------------ inputs

Origin == << 0, 0 >>

\* the sample frames the audio source yields
SourceFrames == { << Unit, 0 >>, << Unit, Unit >> }

\* a full-scale diagonal sweep, alternating between two opposite corners
Sweep(n) == [ i \in 1 .. n |-> IF i % 2 = 1 THEN << -Unit, -Unit >> ELSE << Unit, Unit >> ]

\* a signal at rest
Rest(n) == [ i \in 1 .. n |-> Origin ]

\* the end-to-end scenario's batch: (0,0), (1,0), (1,1)
Corner == << << 0, 0 >>, << Unit, 0 >>, << Unit, Unit >> >>

\* every frame value the model uses
FrameVals == { Origin, << Unit, 0 >>, << Unit, Unit >>, << -Unit, -Unit >> }

\* ------------------------------------------------------------------ helpers

Dot(a, b) == a[1] * b[1] + a[2] * b[2]

Sub(a, b) == << a[1] - b[1], a[2] - b[2] >>

Clamp(x, lo, hi) == IF x < lo THEN lo ELSE IF x > hi THEN hi ELSE x

\* a sequence given by a function, evaluated once
Seq1(f) == SubSeq(f, 1, Len(f))

RECURSIVE Concat(_, _, _)
\* f[lo] \o ... \o f[hi]
Concat(f, lo, hi) ==
  IF lo > hi THEN << >>
  ELSE IF lo = hi THEN f[lo]
  ELSE LET mid == (lo + hi) \div 2
       IN Concat(f, lo, mid) \o Concat(f, mid + 1, hi)

\* ------------------------------------------------------------------ packing

\* the scaled value cut down to the level below it
pack16snorm_floor(num, den) ==
  LET c == Clamp(num, -den, den)
      q == (32767 * c) \div den
  IN q % U16

\* (0.5 + 32767.0 * e.clamp(-1.0, 1.0)).floor() as i16 as u16, for e = num / den
pack16snorm(num, den) ==
  LET c == Clamp(num, -den, den)
      q == (den + 2 * 32767 * c) \div (2 * den)
  IN q % U16

\* a half-word read as an i16
as_i16(half) == IF half >= U16 \div 2 THEN half - U16 ELSE half

\* the shader's reading of a packed half-word, in units of 1 / 32767:
\* max(i16 / 32767, -1)
unpack16snorm(half) == IF as_i16(half) < -32767 THEN -32767 ELSE as_i16(half)

\* (pack16snorm(e[0]) as u32) | ((pack16snorm(e[1]) as u32) << 16)
pack2x16snorm(e) == << pack16snorm(e[1], Unit), pack16snorm(e[2], Unit) >>

\* the two halves in each other's place
pack2xu16_swapped(e) == << e[2] % U16, e[1] % U16 >>

\* (e[0] as u32) | ((e[1] as u32) << 16)
pack2xu16(e) == << e[1] % U16, e[2] % U16 >>

\* the halves of a directory word
WordOffset(w) == w[1]

WordSize(w) == w[2]

\* ------------------------------------------------------------------ binning

\* Vec2::new((chunk_x as f32 - 7.5) / 8.0, (chunk_y as f32 - 7.5) / 8.0) of
\* tile i_chunk = 16 * chunk_y + chunk_x
chunk_center(i) == << 2 * (i % 16) - 15, 2 * (i \div 16) - 15 >>

\* the displacement from the line through start and end, its ends ignored
disp2_line(start, end, i) ==
  LET u == Sub(chunk_center(i), start)
      v == Sub(end, start)
      vv == Dot(v, v)
      uv == Dot(u, v)
  IN IF vv = 0 THEN << Dot(u, u), 1 >>
     ELSE << Dot(u, u) * vv - uv * uv, vv >>

\* |disp|^2 * d for the displacement of the tile test, as the pair <<n, d>>:
\* disp = u, less v * clamp(u.v / v.v, 0, 1) when v.v != 0
disp2(start, end, i) ==
  LET u == Sub(chunk_center(i), start)
      v == Sub(end, start)
      vv == Dot(v, v)
      uv == Dot(u, v)
  IN IF vv = 0 THEN << Dot(u, u), 1 >>
     ELSE IF Clamp(uv, 0, vv) = 0 THEN << Dot(u, u), 1 >>
     ELSE IF Clamp(uv, 0, vv) = vv THEN << Dot(Sub(u, v), Sub(u, v)), 1 >>
     ELSE << Dot(u, u) * vv - uv * uv, vv >>

\* 8.0 * disp.length() < 1.0
accepts(start, end, i) ==
  LET d == disp2(start, end, i)
  IN 64 * d[1] < Unit * Unit * d[2]

\* the tiles whose bucket receives the segment start -> end
chunk_tiles == [ start \in FrameVals, end \in FrameVals |->
                 { i \in Tiles : accepts(start, end, i) } ]

\* the time taken after batch_size += 1
line_data_late(s, k) ==
  [ start |-> pack2x16snorm(s[k]),
    v |-> pack2x16snorm(Sub(s[k + 1], s[k])),
    time |-> k ]

\* Line { start, v, time } of the k-th window (k = 1 ..) of the backlog
line_data(s, k) ==
  [ start |-> pack2x16snorm(s[k]),
    v |-> pack2x16snorm(Sub(s[k + 1], s[k])),
    time |-> k - 1 ]

\* no budget test at all
budget_never(line_buffer_size) == FALSE

\* the test without its margin
budget_no_margin(line_buffer_size) == line_buffer_size > MAX_LINES

\* line_buffer_size > MAX_LINES - 256
budget_spent(line_buffer_size) == line_buffer_size > MAX_LINES - 256

\* one round of `for seg in self.samples.windows(2)`, on window k (k = 1 ..):
\* the tile loop counts the window's tiles, batch_size += 1, and the budget
\* test may break out of the loop
bin_round(s, k, st) ==
  LET n == st.line_buffer_size + Cardinality(chunk_tiles[s[k], s[k + 1]])
  IN [ batch_size |-> st.batch_size + 1,
       line_buffer_size |-> n,
       stopped |-> budget_spent(n) ]

RECURSIVE bin_loop(_, _, _, _)
\* the rounds on windows lo .. hi in order, entered with the counters st; a
\* break ends them.  The range is walked by halves, first half first.
bin_loop(s, lo, hi, st) ==
  IF st.stopped \/ lo > hi THEN st
  ELSE IF lo = hi THEN bin_round(s, lo, st)
  ELSE LET mid == (lo + hi) \div 2
           first == bin_loop(s, lo, mid, st)
       IN IF first.stopped THEN first ELSE bin_loop(s, mid + 1, hi, first)

\* the line_data of every consumed window, in window order
line_datas(s, batch_size) == Seq1([ k \in 1 .. batch_size |-> line_data(s, k) ])

\* the buckets after the loop consumed the first batch_size windows: tile i
\* (at place i + 1) gained a copy of the line_data of every consumed window
\* it accepts, in window order.  A copy is written as the number k of its
\* window: it is the Line line_datas(s, batch_size)[k]
binned(s, buckets, batch_size) ==
  LET hits == Seq1([ k \in 1 .. batch_size |-> chunk_tiles[s[k], s[k + 1]] ])
      every == Seq1([ k \in 1 .. batch_size |-> k ])
  IN Seq1([ j \in 1 .. 256 |->
            buckets[j] \o SelectSeq(every, LAMBDA k : (j - 1) \in hits[k]) ])

\* ------------------------------------------------------------------ directory

\* one round of `for i_chunk in 0..256`: the word of tile i_chunk and the
\* running offset after it.  `fails`: the bucket's length does not convert to
\* u16 (try_into().unwrap() panics, which ends the loop); `wraps`:
\* offset += size leaves the u16 range (a panic with overflow checks, a wrap
\* modulo 2^16 without)
dir_round(buckets, i_chunk, st) ==
  LET len == Len(buckets[i_chunk + 1])
      sum == st.offset + len
  IN IF len >= U16
       THEN [ st EXCEPT !.fails = TRUE ]
       ELSE [ offset |-> sum % U16,
              words |-> Append(st.words, pack2xu16(<< st.offset, len >>)),
              fails |-> FALSE,
              wraps |-> st.wraps \/ sum >= U16 ]

RECURSIVE dir_loop(_, _, _, _)
\* the rounds on tiles lo .. hi in order, walked by halves, first half first
dir_loop(buckets, lo, hi, st) ==
  IF st.fails \/ lo > hi THEN st
  ELSE IF lo = hi THEN dir_round(buckets, lo, st)
  ELSE LET mid == (lo + hi) \div 2
           first == dir_loop(buckets, lo, mid, st)
       IN IF first.fails THEN first ELSE dir_loop(buckets, mid + 1, hi, first)

\* self.config.chunks[i_chunk >> 2].offset_size[i_chunk & 3] of every tile
chunks_of(words) == [ c \in 1 .. 64 |-> [ w \in 1 .. 4 |-> words[4 * (c - 1) + w] ] ]

\* the buckets joined from the last tile to the first
flatten_backwards(buckets) == Concat([ j \in 1 .. 256 |-> buckets[257 - j] ], 1, 256)

\* self.lines.clear();
\* self.lines.extend(self.chunk_lines.iter_mut().flat_map(|v| v.drain(..)))
flatten(buckets) == Concat(buckets, 1, 256)

\* the buckets once drained
drained == [ j \in 1 .. 256 |-> << >> ]

\* ------------------------------------------------------------------ backlog

\* only the newest frame kept
trim_to_last(s, batch_size) == << s[Len(s)] >>

\* every consumed frame removed, the start of the next window with them
trim_consumed(s, batch_size) == SubSeq(s, batch_size + 1, Len(s))

\* self.samples.copy_within(batch_size - 1.., 0);
\* self.samples.truncate(self.samples.len() - batch_size + 1)
trim(s, batch_size) == SubSeq(s, batch_size, Len(s))

\* batch_size - 1 on a usize: no value when batch_size is 0 (a panic with
\* overflow checks; without, usize::MAX, a range start past the end, a panic)
trim_panics(batch_size) == batch_size = 0

\* the segments of the first batch_size windows, before packing
segments(s, batch_size) ==
  Seq1([ k \in 1 .. batch_size |-> [ start |-> s[k], end |-> s[k + 1], time |-> k - 1 ] ])

\* Scope::generate_chunks on backlog s and buckets
generate_chunks(s, buckets) ==
  LET r == bin_loop(s, 1, Len(s) - 1,
                    [ batch_size |-> 0, line_buffer_size |-> 0, stopped |-> FALSE ])
      b == binned(s, buckets, r.batch_size)
      d == dir_loop(b, 0, 255,
                    [ offset |-> 0, words |-> << >>, fails |-> FALSE, wraps |-> FALSE ])
  IN [ batch_size |-> r.batch_size,
       line_buffer_size |-> r.line_buffer_size,
       stopped |-> r.stopped,
       segs |-> segments(s, r.batch_size),
       chunks |-> IF d.fails THEN << >> ELSE chunks_of(d.words),
       end_offset |-> d.offset,
       fails |-> d.fails,
       wraps |-> d.wraps,
       made |-> line_datas(s, r.batch_size),
       lines |-> flatten(b),
       samples |-> IF trim_panics(r.batch_size) THEN s ELSE trim(s, r.batch_size),
       trim_panics |-> trim_panics(r.batch_size) ]

\* ------------------------------------------------------------------ state

VARIABLES
  sample_buf,   \* the ThingBuf shared by the two threads, oldest frame first
  audio,        \* the audio callback: pc, loop index i, frame count n, overrun,
                \* out: frames copied to the output buffer; history: tried and
                \* refused as they were when the callback began
  offered,      \* frames the callbacks issued so far offer to the queue
  events,       \* AppEvent::Overrun notifications sent and not yet handled
  main_pc,      \* the event loop: "idle", "update" (in App::update), "redraw"
  panicked,     \* the process died of a panic
  samples,      \* Scope.samples, the backlog
  chunk_lines,  \* Scope.chunk_lines, the 256 buckets
  lines,        \* Scope.lines, the flat line buffer: the Line at place j is made[lines[j]]
  made,         \* the line_data values of the frame the line buffer was filled in
  chunks,       \* Scope.config.chunks, 64 records of 4 directory words
  total_time,   \* Scope.config.total_time
  window_size,  \* Scope.config.window_size
  inner_size,   \* the window's inner size
  front,        \* size_dependent.front: the surface bound to read and to write
  back,         \* size_dependent.back
  resizes,      \* allocations of the surfaces after the first
  written,      \* history: the surfaces a pass has written, of every allocation
  pushed,       \* history: the frames pushed successfully, in order
  appended,     \* history: the frames App::update appended to the backlog
  base,         \* history: how many frames were trimmed off the backlog's head
  entry,        \* history: the backlog on entry to the last generate_chunks
  left,         \* history: the backlog the last generate_chunks left
  segs,         \* history: the segments of the last generate_chunks
  drawn,        \* history: the counters of the last generate_chunks
  pending,      \* history: the windows the last early stop left unconsumed
  retried,      \* history: the last generate_chunks consumed some of `pending`
  resumed,      \* history: the generate_chunks after an early stop began with `pending`
  pass,         \* history: the surfaces of the last compositing pass
  age,          \* history: calls made on Scope so far, counted up to 3
  bursts,       \* history: batches a caller gave to Scope::extend directly
  tried,        \* history: calls of ThingBuf::push made by the audio callback
  refused,      \* history: those of them that returned an error
  resize_events,\* WindowEvent::Resized events delivered to the loop, not yet handled
  seg,          \* a segment on its way through the tile test or to the shader: its
                \* ends, the tile tried and whether its bucket received the
                \* segment, the Line made of it and the end the shader reads
  snorm,        \* a coordinate on its way to the shader: the value, the half-word
                \* it packs to and the value the shader unpacks
  mid_frame,    \* history: a Resized event came while a tick was running
  configured,   \* the size the presentation surface is configured at
  acq,          \* history: get_current_texture calls of this tick: how many, how
                \* many returned Lost, what the last returned, what redraw returned
  mark          \* history: frames pushed before the App::update now running began

app_vars == << sample_buf, audio, offered, events, main_pc, pushed, appended >>

scope_vars == << samples, chunk_lines, lines, made, chunks, total_time >>

size_vars == << window_size, inner_size, front, back, resizes, written, pass >>

hist_vars == << base, entry, left, segs, drawn, pending, retried, resumed >>

push_vars == << tried, refused >>

tick_vars == << resize_events, mid_frame, configured, acq, mark >>

vars == << app_vars, scope_vars, size_vars, hist_vars, panicked, age, bursts,
           push_vars, tick_vars, snorm, seg >>

\* the window sizes the window system reports
Sizes == { << 640, 480 >> }

\* the frame counts of the output buffers the audio device hands over
CallbackLens == { 1, 5 }

\* SizeDependent::new: textures a and b of one allocation; front renders from
\* a to b, back from b to a
SizeDependent_new(gen) ==
  [ front |-> [ read |-> << "a", gen >>, write |-> << "b", gen >> ],
    back |-> [ read |-> << "b", gen >>, write |-> << "a", gen >> ] ]

\* no pass made on the present surfaces yet
NoPass(tick) == [ read |-> << "none", 0 >>, write |-> << "none", 0 >>, tick |-> tick ]

\* Scope::new, App::new, and main as the event loop starts, the audio stream
\* having pushed the frames of `queue` already
Booted(queue) ==
  /\ sample_buf = queue
  /\ audio = [ pc |-> "idle", i |-> 0, n |-> 0, overrun |-> FALSE, out |-> 0,
               tried0 |-> 0, refused0 |-> 0 ]
  /\ offered = 0
  /\ tried = Len(queue)
  /\ refused = 0
  /\ resize_events = 0
  /\ mid_frame = FALSE
  /\ configured = << 360, 360 >>
  /\ acq = [ n |-> 0, lost |-> 0, last |-> "none", ret |-> "none", after_skip |-> FALSE ]
  /\ mark = 0
  /\ events = 0
  /\ main_pc = "idle"
  /\ panicked = FALSE
  /\ samples = << Origin >>
  /\ chunk_lines = drained
  /\ lines = << >>
  /\ made = << >>
  /\ chunks = [ c \in 1 .. 64 |-> [ w \in 1 .. 4 |-> << 0, 0 >> ] ]
  /\ total_time = 0
  /\ window_size = << 360, 360 >>
  /\ inner_size = << 360, 360 >>
  /\ front = SizeDependent_new(0).front
  /\ back = SizeDependent_new(0).back
  /\ resizes = 0
  /\ written = { }
  /\ pushed = queue
  /\ appended = << >>
  /\ base = 0
  /\ entry = << >>
  /\ left = << >>
  /\ segs = << >>
  /\ drawn = [ n |-> 0, batch_size |-> 0, line_buffer_size |-> 0, stopped |-> FALSE,
               fails |-> FALSE, wraps |-> FALSE ]
  /\ pending = << >>
  /\ retried = FALSE
  /\ resumed = TRUE
  /\ pass = NoPass(FALSE)
  /\ age = 0
  /\ bursts = 0

\* the event loop starts before the audio callback has run
\* no coordinate is on its way
NoSnorm == [ x |-> << 0, 1 >>, word |-> 0, back |-> 0, pc |-> "done" ]

\* no segment is on its way
NoSeg ==
  [ start |-> Origin, end |-> Origin, tile |-> 0, bucket |-> << >>,
    line |-> line_data(<< Origin, Origin >>, 1), back |-> Origin, pc |-> "done" ]

Init == Booted(<< >>) /\ snorm = NoSnorm /\ seg = NoSeg

Older == age' = IF age < 3 THEN age + 1 ELSE age

\* ------------------------------------------------------------------ Scope

\* the frames put before the backlog
Scope_extend_front(frames) == samples' = frames \o samples

\* Scope::extend
Scope_extend(frames) == samples' = samples \o frames

\* Scope::push, which App::update calls and scope.rs does not define: the
\* backlog extended with the one frame
Scope_push(frame) == Scope_extend(<< frame >>)

\* the render pass of Scope::draw binds size_dependent.front: it reads
\* front's first texture and writes its second
render_pass ==
  /\ pass' = [ read |-> front.read, write |-> front.write, tick |-> ~pass.tick ]
  /\ written' = written \cup { front.write }

\* the bindings left as they are
swap_omitted ==
  /\ front' = front
  /\ back' = back

\* std::mem::swap(&mut self.size_dependent.front, &mut self.size_dependent.back)
swap ==
  /\ front' = back
  /\ back' = front

\* Scope::draw: generate_chunks, the two uploads, the pass, the swap.  A
\* panic inside generate_chunks ends the call where it happens.
Scope_draw ==
  \E g \in { generate_chunks(samples, chunk_lines) } :
  LET n == Len(samples)
  IN \E checks \in (IF g.wraps THEN BOOLEAN ELSE { FALSE }) :
       LET dir_dies == g.fails \/ (g.wraps /\ checks)
           dies == dir_dies \/ g.trim_panics
       IN /\ panicked' = dies
          /\ IF dir_dies
               THEN UNCHANGED << chunks, lines, made, chunk_lines >>
               ELSE /\ chunks' = g.chunks
                    /\ lines' = g.lines
                    /\ made' = g.made
                    /\ chunk_lines' = drained
          /\ IF dies
               THEN UNCHANGED << samples, total_time, base, front, back, pass, written >>
               ELSE /\ samples' = g.samples
                    /\ total_time' = g.batch_size
                    /\ base' = base + g.batch_size - 1
                    /\ render_pass
                    /\ swap
          /\ entry' = samples
          /\ left' = samples'
          /\ segs' = g.segs
          /\ drawn' = [ n |-> n, batch_size |-> g.batch_size,
                        line_buffer_size |-> g.line_buffer_size, stopped |-> g.stopped,
                        fails |-> g.fails, wraps |-> g.wraps ]
          /\ pending' = IF g.stopped /\ g.batch_size < n - 1
                          THEN << base + g.batch_size, base + n - 2 >>
                          ELSE << >>
          /\ retried' = /\ pending # << >>
                        /\ g.batch_size > 0
                        /\ base <= pending[2]
                        /\ pending[1] <= base + g.batch_size - 1
          /\ resumed' = \/ pending = << >>
                        \/ /\ base <= pending[1]
                           /\ pending[1] <= base + g.batch_size - 1
          /\ Older

\* size_dependent kept as it is, only the size taken
Scope_window_resized_kept ==
  /\ resizes' = resizes + 1
  /\ UNCHANGED << front, back, written >>
  /\ pass' = NoPass(pass.tick)
  /\ window_size' = inner_size

\* Scope::window_resized: both surfaces allocated anew at the window's size
Scope_window_resized ==
  /\ resizes' = resizes + 1
  /\ front' = SizeDependent_new(resizes + 1).front
  /\ back' = SizeDependent_new(resizes + 1).back
  /\ UNCHANGED written
  /\ pass' = NoPass(pass.tick)
  /\ window_size' = inner_size

\* ------------------------------------------------------------------ audio thread

\* the rounds of a callback on n frames whose index is a multiple of 4
pushes_in(n) == (n + 3) \div 4

\* the device calls the data callback with a buffer of n frames
CallbackStart ==
  /\ UNCHANGED << snorm, seg >>
  /\ ~panicked
  /\ audio.pc = "idle"
  /\ \E n \in CallbackLens :
       /\ offered + pushes_in(n) <= MaxOffered
       /\ offered' = offered + pushes_in(n)
       /\ audio' = [ pc |-> "loop", i |-> 0, n |-> n, overrun |-> FALSE, out |-> 0,
                      tried0 |-> tried, refused0 |-> refused ]
  /\ UNCHANGED << sample_buf, events, main_pc, pushed, appended >>
  /\ UNCHANGED << scope_vars, size_vars, hist_vars, panicked, age, bursts >>
  /\ UNCHANGED << push_vars, tick_vars >>

\* a push that always finds room
push_ok_unbounded(buf) == TRUE

\* ThingBuf::push: refused when the buffer holds its capacity
push_ok(buf) == Len(buf) < SAMPLE_BUF_CAPACITY

\* the rounds of the callback's loop at index i, where a frame is copied out
\* and pushed, and at the indexes after it that are no multiple of 4, where
\* the frame is only copied out (steps no other thread observes)
next_push(i, n) == IF i + 4 < n THEN i + 4 ELSE n

\* out_frame.copy_from_slice(&in_frame) in each of those rounds
copied(i, n) == next_push(i, n) - i

CallbackFrame ==
  /\ UNCHANGED << snorm, seg >>
  /\ ~panicked
  /\ audio.pc = "loop"
  /\ audio.i < audio.n
  /\ audio.i % 4 = 0
  /\ \E in_frame \in SourceFrames :
       IF push_ok(sample_buf)
         THEN /\ sample_buf' = Append(sample_buf, in_frame)
              /\ pushed' = Append(pushed, in_frame)
              /\ audio' = [ audio EXCEPT !.i = next_push(audio.i, audio.n),
                                         !.out = @ + copied(audio.i, audio.n) ]
              /\ UNCHANGED refused
         ELSE /\ audio' = [ audio EXCEPT !.i = next_push(audio.i, audio.n),
                                         !.out = @ + copied(audio.i, audio.n),
                                         !.overrun = TRUE ]
              /\ refused' = refused + 1
              /\ UNCHANGED << sample_buf, pushed >>
  /\ tried' = tried + 1
  /\ UNCHANGED << offered, events, main_pc, appended >>
  /\ UNCHANGED << scope_vars, size_vars, hist_vars, panicked, age, bursts >>
  /\ UNCHANGED tick_vars

\* a notification at the end of every callback
send_overrun_always(overrun, sent) == sent + 1

\* if overrun { let _ = audio_events.send_event(AppEvent::Overrun); }
send_overrun(overrun, sent) == IF overrun THEN sent + 1 ELSE sent

\* the end of the callback: one notification if a push failed
CallbackEnd ==
  /\ UNCHANGED << snorm, seg >>
  /\ ~panicked
  /\ audio.pc = "loop"
  /\ audio.i = audio.n
  /\ events' = send_overrun(audio.overrun, events)
  /\ audio' = [ audio EXCEPT !.pc = "idle" ]
  /\ UNCHANGED << sample_buf, offered, main_pc, pushed, appended >>
  /\ UNCHANGED << scope_vars, size_vars, hist_vars, panicked, age, bursts >>
  /\ UNCHANGED << push_vars, tick_vars >>

\* ------------------------------------------------------------------ event loop

\* a handler entered while another has not returned
any_time == TRUE

\* event_loop.run calls its closure for one event at a time, on one thread:
\* a handler is entered only when the one before it has returned
between_handlers == main_pc = "idle"

\* no call of get_current_texture made in this tick, redraw not returned;
\* after_skip: the tick before this one returned without a draw
NoAcq(after_skip) ==
  [ n |-> 0, lost |-> 0, last |-> "none", ret |-> "none", after_skip |-> after_skip ]

\* Event::AboutToWait: app.update() is entered
AboutToWait ==
  /\ UNCHANGED << snorm, seg >>
  /\ ~panicked
  /\ between_handlers
  /\ main_pc' = "update"
  /\ acq' = NoAcq(acq.last \in { "Timeout", "Outdated" })
  /\ mark' = Len(pushed)
  /\ UNCHANGED << resize_events, mid_frame, configured >>
  /\ UNCHANGED << sample_buf, audio, offered, events, pushed, appended >>
  /\ UNCHANGED << scope_vars, size_vars, hist_vars, panicked, age, bursts >>
  /\ UNCHANGED push_vars

\* ThingBuf::pop on a buffer that holds a frame: the oldest one
pop_frame(buf) == Head(buf)

pop_rest(buf) == Tail(buf)

\* a loop that ends with one frame left in the queue
pop_none_early(buf) == Len(buf) <= 1

\* ThingBuf::pop returns None: the buffer holds no frame
pop_none(buf) == buf = << >>

\* one round of `while let Some(frame) = self.sample_buf.pop()`: the frame
\* goes to the backlog; None ends App::update and App::redraw is entered
Update ==
  /\ UNCHANGED << snorm, seg >>
  /\ ~panicked
  /\ main_pc = "update"
  /\ IF ~pop_none(sample_buf)
       THEN /\ Scope_push(pop_frame(sample_buf))
            /\ sample_buf' = pop_rest(sample_buf)
            /\ appended' = Append(appended, pop_frame(sample_buf))
            /\ Older
            /\ UNCHANGED main_pc
            /\ UNCHANGED mark
       ELSE /\ main_pc' = "redraw"
            /\ mark' = 0
            /\ UNCHANGED << sample_buf, appended, samples, age >>
  /\ UNCHANGED << audio, offered, events, pushed >>
  /\ UNCHANGED << chunk_lines, lines, made, chunks, total_time >>
  /\ UNCHANGED << size_vars, hist_vars, panicked, bursts >>
  /\ UNCHANGED << push_vars, resize_events, mid_frame, configured, acq >>

\* what Surface::get_current_texture returns
Acquired == { "Ok", "Lost", "Timeout", "Outdated", "OutOfMemory" }

\* every error but a hard one met by another attempt
redraw_arm_again(got) ==
  CASE got = "Ok" -> "draw"
    [] got \in { "Lost", "Timeout", "Outdated" } -> "again"
    [] OTHER -> "fail"

\* every error met by giving the frame up quietly
redraw_arm_quiet(got) ==
  CASE got = "Ok" -> "draw"
    [] got = "Lost" -> "again"
    [] OTHER -> "skip"

\* the arms of the match in App::redraw
redraw_arm(got) ==
  CASE got = "Ok" -> "draw"
    [] got = "Lost" -> "again"
    [] got \in { "Timeout", "Outdated" } -> "skip"
    [] OTHER -> "fail"

\* one more call of get_current_texture in this tick, which returned got
acquire(got) ==
  [ acq EXCEPT !.n = @ + 1,
               !.lost = IF got = "Lost" THEN @ + 1 ELSE @,
               !.last = got ]

\* App::redraw with a frame acquired: Scope::draw, submit, present
RedrawOk ==
  /\ UNCHANGED << snorm, seg >>
  /\ ~panicked
  /\ main_pc = "redraw"
  /\ \E got \in Acquired :
       /\ redraw_arm(got) = "draw"
       /\ acq' = [ acquire(got) EXCEPT !.ret = "Ok" ]
  /\ Scope_draw
  /\ main_pc' = "idle"
  /\ UNCHANGED << sample_buf, audio, offered, events, pushed, appended >>
  /\ UNCHANGED << window_size, inner_size, resizes, bursts >>
  /\ UNCHANGED << push_vars, resize_events, mid_frame, configured, mark >>

\* App::reconfigure: the presentation surface configured at the window's size
App_reconfigure == configured' = inner_size

\* the backlog thrown away but for its newest frame
frame_dropped ==
  /\ samples' = << samples[Len(samples)] >>
  /\ UNCHANGED << chunk_lines, lines, made, chunks, total_time >>
  /\ UNCHANGED << size_vars, hist_vars >>

\* the arms of App::redraw that draw nothing: no call on self.scope
frame_kept == UNCHANGED << scope_vars, size_vars, hist_vars >>

\* SurfaceError::Lost: App::reconfigure configures the surface at the window's
\* size, and the loop asks for the frame again
RedrawLost ==
  /\ UNCHANGED << snorm, seg >>
  /\ ~panicked
  /\ main_pc = "redraw"
  /\ acq.lost < MaxLost
  /\ \E got \in Acquired :
       /\ redraw_arm(got) = "again"
       /\ acq' = acquire(got)
  /\ frame_kept
  /\ UNCHANGED << app_vars, panicked, age, bursts >>
  /\ App_reconfigure
  /\ UNCHANGED << push_vars, resize_events, mid_frame, mark >>

\* SurfaceError::Timeout or Outdated: redraw returns Ok(()) with nothing drawn
RedrawSkipped ==
  /\ UNCHANGED << snorm, seg >>
  /\ ~panicked
  /\ main_pc = "redraw"
  /\ \E got \in Acquired :
       /\ redraw_arm(got) = "skip"
       /\ acq' = [ acquire(got) EXCEPT !.ret = "Ok" ]
  /\ main_pc' = "idle"
  /\ frame_kept
  /\ UNCHANGED << sample_buf, audio, offered, events, pushed, appended >>
  /\ UNCHANGED << panicked, age, bursts >>
  /\ UNCHANGED << push_vars, resize_events, mid_frame, configured, mark >>

\* any other SurfaceError: redraw returns Err and the caller's unwrap panics
RedrawFailed ==
  /\ UNCHANGED << snorm, seg >>
  /\ ~panicked
  /\ main_pc = "redraw"
  /\ \E got \in Acquired :
       /\ redraw_arm(got) = "fail"
       /\ acq' = [ acquire(got) EXCEPT !.ret = "Err" ]
  /\ panicked' = TRUE
  /\ frame_kept
  /\ UNCHANGED << app_vars, age, bursts >>
  /\ UNCHANGED << push_vars, resize_events, mid_frame, configured, mark >>

\* the window system changes the window's size and queues a Resized event,
\* whatever the event loop is doing
ResizeArrives ==
  /\ UNCHANGED << snorm, seg >>
  /\ ~panicked
  /\ resizes + resize_events < MaxResizes
  /\ \E size \in Sizes : inner_size' = size
  /\ resize_events' = resize_events + 1
  /\ mid_frame' = (mid_frame \/ main_pc # "idle")
  /\ UNCHANGED << window_size, front, back, resizes, written, pass >>
  /\ UNCHANGED << app_vars, scope_vars, hist_vars, panicked, age, bursts >>
  /\ UNCHANGED << push_vars, configured, acq, mark >>

\* WindowEvent::Resized or ScaleFactorChanged: App::window_resized, that is
\* Scope::window_resized and App::reconfigure
WindowResized ==
  /\ UNCHANGED << snorm, seg >>
  /\ ~panicked
  /\ between_handlers
  /\ resize_events > 0
  /\ resize_events' = resize_events - 1
  /\ Scope_window_resized
  /\ UNCHANGED inner_size
  /\ UNCHANGED << app_vars, scope_vars, hist_vars, panicked, age, bursts >>
  /\ App_reconfigure
  /\ UNCHANGED << push_vars, mid_frame, acq, mark >>

\* Event::UserEvent(AppEvent::Overrun): a line on stderr
Overrun ==
  /\ UNCHANGED << snorm, seg >>
  /\ ~panicked
  /\ between_handlers
  /\ events > 0
  /\ events' = events - 1
  /\ UNCHANGED << sample_buf, audio, offered, main_pc, pushed, appended >>
  /\ UNCHANGED << scope_vars, size_vars, hist_vars, panicked, age, bursts >>
  /\ UNCHANGED << push_vars, tick_vars >>

\* the audio thread and the event loop's ticks
Next ==
  \/ CallbackStart
  \/ CallbackFrame
  \/ CallbackEnd
  \/ AboutToWait
  \/ Update
  \/ RedrawOk
  \/ RedrawLost
  \/ RedrawSkipped
  \/ RedrawFailed

Spec == Init /\ [][Next]_vars

\* ------------------------------------------------------------------ Scope alone

\* the batches a caller gives to Scope::extend
Batches == { << Origin >>, Corner, Rest(2), Sweep(BurstLen) }

\* a caller extends the backlog by one batch
Extend ==
  /\ UNCHANGED << snorm, seg >>
  /\ ~panicked
  /\ bursts < MaxBursts
  /\ bursts' = bursts + 1
  /\ \E frames \in Batches : Scope_extend(frames)
  /\ Older
  /\ UNCHANGED << app_vars, size_vars, hist_vars, panicked >>
  /\ UNCHANGED << chunk_lines, lines, made, chunks, total_time >>
  /\ UNCHANGED << push_vars, tick_vars >>

\* a caller draws one frame
Draw ==
  /\ UNCHANGED << snorm, seg >>
  /\ ~panicked
  /\ Scope_draw
  /\ UNCHANGED << app_vars, window_size, inner_size, resizes, bursts >>
  /\ UNCHANGED << push_vars, tick_vars >>

NextScope ==
  \/ Extend
  \/ Draw

SpecScope == Init /\ [][NextScope]_vars

\* ------------------------------------------------------------------ ticks and resizes

\* the frames the callbacks pushed before the event loop started
Queued == { << >>, << << Unit, 0 >> >>, << << Unit, 0 >>, << Unit, Unit >> >> }

InitLoop == \E queue \in Queued : Booted(queue) /\ snorm = NoSnorm /\ seg = NoSeg

\* the event loop's ticks and the window's resizes, the audio stream silent
NextLoop ==
  \/ AboutToWait
  \/ Update
  \/ RedrawOk
  \/ RedrawLost
  \/ RedrawSkipped
  \/ RedrawFailed
  \/ ResizeArrives
  \/ WindowResized

SpecLoop == InitLoop /\ [][NextLoop]_vars

\* ------------------------------------------------------------------ a full queue

\* the queue after the callbacks pushed n frames and no App::update ran
Backed(n) == [ i \in 1 .. n |-> << Unit, 0 >> ]

\* the event loop starts late: the queue is full, or one frame short of it
InitQueue ==
  \E room \in 0 .. 1 : Booted(Backed(SAMPLE_BUF_CAPACITY - room)) /\ snorm = NoSnorm /\ seg = NoSeg

\* the callbacks, the notification's handler, and an App::update that pops
\* MaxPops frames before the thread is held up
NextQueue ==
  \/ CallbackStart
  \/ CallbackFrame
  \/ CallbackEnd
  \/ Overrun
  \/ AboutToWait
  \/ (Len(appended) < MaxPops /\ Update)

SpecQueue == InitQueue /\ [][NextQueue]_vars

\* ------------------------------------------------------------------ one coordinate

\* the coordinates num / den given to pack16snorm: from -2.0 to 2.0
Coordinates ==
  UNION { { << num, den >> : num \in -2 * den .. 2 * den } : den \in { 1, 3, MaxDen } }

InitPack ==
  /\ Booted(<< >>)
  /\ \E x \in Coordinates : snorm = [ x |-> x, word |-> 0, back |-> 0, pc |-> "pack" ]
  /\ seg = NoSeg

\* line_data packs a coordinate of a Line
PackCoordinate ==
  /\ snorm.pc = "pack"
  /\ snorm' = [ snorm EXCEPT !.word = pack16snorm(snorm.x[1], snorm.x[2]),
                             !.pc = "unpack" ]
  /\ UNCHANGED << app_vars, scope_vars, size_vars, hist_vars, panicked, age, bursts >>
  /\ UNCHANGED << push_vars, tick_vars, seg >>

\* the shader reads the coordinate back
UnpackCoordinate ==
  /\ snorm.pc = "unpack"
  /\ snorm' = [ snorm EXCEPT !.back = unpack16snorm(snorm.word), !.pc = "done" ]
  /\ UNCHANGED << app_vars, scope_vars, size_vars, hist_vars, panicked, age, bursts >>
  /\ UNCHANGED << push_vars, tick_vars, seg >>

NextPack == PackCoordinate \/ UnpackCoordinate

SpecPack == InitPack /\ [][NextPack]_vars

\* ------------------------------------------------------------------ one tile test

\* a frame far outside the plane, a frame at the centre of a tile, and a
\* frame off the grid of the others
Far == << 2 * Unit, 2 * Unit >>

AtCentre == << 1, 1 >>

OffGrid == << 3, -7 >>

\* the ends of the segments given to the tile test
TilePoints == FrameVals \cup { Far, AtCentre, OffGrid }

InitTile ==
  /\ Booted(<< >>)
  /\ snorm = NoSnorm
  /\ \E start \in TilePoints, end \in TilePoints, i \in Tiles :
       seg = [ NoSeg EXCEPT !.start = start, !.end = end, !.tile = i,
                            !.line = line_data(<< start, end >>, 1), !.pc = "test" ]

\* one round of the tile loop: the test, and the push if it passes
TileTest ==
  /\ seg.pc = "test"
  /\ seg' = [ seg EXCEPT
                !.bucket = IF accepts(seg.start, seg.end, seg.tile)
                             THEN Append(@, seg.line)
                             ELSE @,
                !.pc = "done" ]
  /\ UNCHANGED << app_vars, scope_vars, size_vars, hist_vars, panicked, age, bursts >>
  /\ UNCHANGED << push_vars, tick_vars, snorm >>

NextTile == TileTest

SpecTile == InitTile /\ [][NextTile]_vars

\* ------------------------------------------------------------------ one Line

\* the coordinates of the ends of the segments packed, all within [-1, 1]
LineCoords == { -Unit, -5, 0, 3, Unit }

InitLine ==
  /\ Booted(<< >>)
  /\ snorm = NoSnorm
  /\ \E start \in LineCoords \X LineCoords, end \in LineCoords \X LineCoords :
       seg = [ NoSeg EXCEPT !.start = start, !.end = end, !.pc = "pack" ]

\* generate_chunks makes the Line of the segment
PackLine ==
  /\ seg.pc = "pack"
  /\ seg' = [ seg EXCEPT !.line = line_data(<< seg.start, seg.end >>, 1),
                         !.pc = "unpack" ]
  /\ UNCHANGED << app_vars, scope_vars, size_vars, hist_vars, panicked, age, bursts >>
  /\ UNCHANGED << push_vars, tick_vars, snorm >>

\* the shader's end of the segment, in units of 1 / 32767: the start word
\* and the direction word unpacked and added, axis by axis
unpacked_end(line) ==
  << unpack16snorm(line.start[1]) + unpack16snorm(line.v[1]),
     unpack16snorm(line.start[2]) + unpack16snorm(line.v[2]) >>

\* the shader reads the Line
UnpackLine ==
  /\ seg.pc = "unpack"
  /\ seg' = [ seg EXCEPT !.back = unpacked_end(seg.line), !.pc = "done" ]
  /\ UNCHANGED << app_vars, scope_vars, size_vars, hist_vars, panicked, age, bursts >>
  /\ UNCHANGED << push_vars, tick_vars, snorm >>

NextLine == PackLine \/ UnpackLine

SpecLine == InitLine /\ [][NextLine]_vars

\* ------------------------------------------------------------------ claims

\* the backlog that App::update has fed: the seed frame and every frame
\* appended, less the frames trimmed off its head
fed_backlog == SubSeq(<< Origin >> \o appended, base + 1, Len(appended) + 1)

\* C1: under every interleaving of the audio callback's pushes and
\* App::update's pops, the frames popped so far followed by the frames still
\* queued are exactly the frames pushed successfully, in push order (nothing
\* popped that was not pushed, nothing reordered, nothing twice), and the
\* backlog holds the popped frames in that order.
SampleQueueFifo ==
  /\ pushed = appended \o sample_buf
  /\ samples = fed_backlog

\* C1 witness: both threads are inside their loops, one frame is popped and
\* a different one is still queued.
SampleQueueFifoWitness ==
  /\ main_pc = "update"
  /\ audio.pc = "loop"
  /\ Len(appended) = 1
  /\ Len(sample_buf) = 1
  /\ appended[1] # sample_buf[1]

\* a generate_chunks ran to its end on a backlog of at least 2 frames
DrewBatch == drawn.n >= 2 /\ ~panicked

\* C2: generate_chunks on a backlog of N >= 2 frames leaves exactly 1 frame
\* in the backlog, the final frame of the batch.
BacklogKeepsLastFrameOnly ==
  DrewBatch => left = << entry[drawn.n] >>

\* C3: a frame driven on a backlog of fewer than 2 frames emits no segment,
\* leaves the backlog as it was, and still makes the compositing pass and
\* the front/back swap.
ShortBacklogStillComposites ==
  drawn.n = 1 =>
    /\ ~panicked
    /\ segs = << >>
    /\ left = entry
    /\ pass.read # NoPass(FALSE).read

\* C4: the (segment x tile) assignments placed in one frame never exceed
\* MAX_LINES, whatever the backlog: the flat line buffer holds exactly the
\* assignments counted, and the loop stops at the first window that takes
\* the count over MAX_LINES - 256.
LineBufferWithinMaxLines ==
  /\ Len(lines) <= MAX_LINES
  /\ Len(lines) = drawn.line_buffer_size
  /\ drawn.stopped =>
       /\ drawn.line_buffer_size > MAX_LINES - 256
       /\ drawn.line_buffer_size
            - Cardinality(chunk_tiles[entry[drawn.batch_size], entry[drawn.batch_size + 1]])
          <= MAX_LINES - 256
  /\ (drawn.n >= 1 /\ ~drawn.stopped) => drawn.batch_size = drawn.n - 1

\* C4 witness: a frame whose binning the budget stopped, with more than
\* MAX_LINES - 256 lines in the buffer.
LineBufferWithinMaxLinesWitness ==
  /\ drawn.stopped
  /\ drawn.batch_size < drawn.n - 1
  /\ Len(lines) > MAX_LINES - 256

unconsumed == SubSeq(entry, drawn.batch_size + 1, drawn.n)

CornerScenario ==
  (age = 2 /\ bursts = 1 /\ drawn.n > 0 /\ entry = << Origin >> \o Corner) =>
    /\ segs = << [ start |-> << 0, 0 >>, end |-> << Unit, 0 >>, time |-> 0 ],
                 [ start |-> << Unit, 0 >>, end |-> << Unit, Unit >>, time |-> 1 ] >>
    /\ left = << << Unit, Unit >> >>

\* C7: with N >= 2 frames and the budget not hit, generate_chunks emits
\* N - 1 segments, the k-th from frame k to frame k + 1 with time k (from
\* 0), every line in the buffer carries the time of one of them, and
\* total_time is the number of segments.
SegmentsFollowBacklog ==
  (DrewBatch /\ ~drawn.stopped) =>
    /\ Len(segs) = drawn.n - 1
    /\ \A k \in 1 .. Len(segs) :
         segs[k] = [ start |-> entry[k], end |-> entry[k + 1], time |-> k - 1 ]
    /\ \A k \in 1 .. Len(made) : made[k].time = segs[k].time
    /\ \A j \in 1 .. Len(lines) : made[lines[j]].time < Len(segs)
    /\ total_time = Len(segs)

\* C7 witness: a frame on a backlog of 4 frames that emitted 3 segments.
SegmentsFollowBacklogWitness ==
  /\ DrewBatch
  /\ ~drawn.stopped
  /\ drawn.n = 4
  /\ Len(segs) = 3
  /\ Len(lines) > 0

\* the directory's offset and count of tile i
dir_offset(i) == WordOffset(chunks[(i \div 4) + 1][(i % 4) + 1])

dir_count(i) == WordSize(chunks[(i \div 4) + 1][(i % 4) + 1])

\* C8: after every directory construction offset[0] = 0, offset[i] +
\* count[i] = offset[i + 1] for every i < 255 (so offset[i] is the sum of
\* the counts before i, and offsets never decrease), and offset[255] +
\* count[255] is the number of lines placed and at most MAX_LINES.
DirectoryIsPrefixSum ==
  /\ dir_offset(0) = 0
  /\ \A i \in 0 .. 254 : dir_offset(i) + dir_count(i) = dir_offset(i + 1)
  /\ dir_offset(255) + dir_count(255) <= MAX_LINES
  /\ dir_offset(255) + dir_count(255) = Len(lines)

\* C8 witness: a directory over several non-empty buckets.
DirectoryIsPrefixSumWitness ==
  /\ DrewBatch
  /\ dir_count(0) > 0
  /\ dir_offset(255) > dir_count(0)
  /\ dir_count(255) > 0

\* C9: on input that would take the count over MAX_LINES - 256, directory
\* construction neither fails a conversion nor wraps: every bucket length
\* and every value of the running offset, the last accumulation included,
\* is below 2^16.
DirectoryFitsU16 ==
  /\ ~drawn.fails
  /\ ~drawn.wraps
  /\ drawn.line_buffer_size < U16
  /\ ~panicked => dir_offset(255) + dir_count(255) = drawn.line_buffer_size

\* C9 witness: a directory built after the budget stopped the binning.
DirectoryFitsU16Witness ==
  /\ drawn.stopped
  /\ ~panicked
  /\ dir_offset(255) + dir_count(255) > MAX_LINES - 256

\* C10: with no resize between, each pass reads one surface and writes the
\* other, through the bindings called front; front and back are exchanged
\* once after each pass and at no other time; and a pass reads the surface
\* the pass before it wrote.
PingPong ==
  [][ /\ pass'.tick # pass.tick =>
           /\ pass'.read # pass'.write
           /\ pass'.read = front.read
           /\ pass'.write = front.write
           /\ front' = back
           /\ back' = front
           /\ pass.read # NoPass(FALSE).read => pass'.read = pass.write
      /\ (pass'.tick = pass.tick /\ resizes' = resizes) =>
           /\ front' = front
           /\ back' = back ]_vars

\* C10 witness: two passes made on the surfaces of one allocation.
PingPongWitness ==
  /\ resizes = 1
  /\ written = { << "a", 1 >>, << "b", 1 >> }
  /\ pass.read = << "b", 1 >>

\* the surfaces of the allocations before the present one
stale == { t \in { "a", "b" } \X (0 .. resizes) : t[2] < resizes }

\* C11: window_resized allocates both surfaces anew and resets the
\* bindings: no binding names a surface of an earlier allocation, and the
\* first pass after a resize reads and writes surfaces of the new
\* allocation, the read one never written by any pass, whether an odd or an
\* even number of draws came before the resize.
ResizeDiscardsDecay ==
  [][ /\ resizes' # resizes =>
           /\ { front'.read, front'.write, back'.read, back'.write }
                \cap { front.read, front.write, back.read, back.write } = { }
           /\ { front'.read, front'.write } \cap written' = { }
           /\ pass'.read = NoPass(FALSE).read
      /\ (pass'.tick # pass.tick /\ pass.read = NoPass(FALSE).read) =>
           /\ pass'.read \notin written
           /\ pass'.read \notin stale
           /\ pass'.write \notin stale ]_vars

\* C11 witness: the first pass after a resize that one draw preceded.
ResizeDiscardsDecayWitness ==
  /\ resizes = 1
  /\ written = { << "b", 0 >>, << "b", 1 >> }
  /\ pass.read = << "a", 1 >>

\* C12: the sample queue never holds more than SAMPLE_BUF_CAPACITY frames.
\* A push made while it is full is refused at once: the queue is left as
\* it was, the callback goes on to its next round without a second attempt
\* at the frame, and the frame is in no later pop: the frames popped and
\* the frames queued are always exactly the frames pushed successfully.
FullQueueRefuses ==
  /\ [](/\ Len(sample_buf) <= SAMPLE_BUF_CAPACITY
        /\ pushed = appended \o sample_buf
        /\ tried = Len(pushed) + refused)
  /\ [][ /\ refused' # refused =>
              /\ Len(sample_buf) = SAMPLE_BUF_CAPACITY
              /\ sample_buf' = sample_buf
              /\ refused' = refused + 1
              /\ tried' = tried + 1
              /\ audio'.i > audio.i
              /\ audio'.pc = "loop"
         /\ tried' # tried =>
              /\ tried' = tried + 1
              /\ audio'.i > audio.i ]_vars

\* C12 witness: a push was refused, App::update popped a frame after it, and
\* a later push filled the queue again.
FullQueueRefusesWitness ==
  /\ refused = 1
  /\ Len(appended) = 1
  /\ Len(sample_buf) = SAMPLE_BUF_CAPACITY
  /\ Len(pushed) = SAMPLE_BUF_CAPACITY + 1

\* a step in which get_current_texture returned one of `outcomes`
Acquires(outcomes) == acq'.n = acq.n + 1 /\ acq'.last \in outcomes

\* C13: an acquisition that returns Timeout, Outdated or Lost discards
\* nothing: the backlog, with the frames drained in this tick, the buckets
\* and the front/back bindings are as before it.  Until a draw the backlog
\* only grows at its end, and the draw that next acquires a surface takes
\* the whole backlog as its batch and emits every window of it.
TransientKeepsPending ==
  [][ /\ Acquires({ "Lost", "Timeout", "Outdated" }) =>
           /\ samples' = samples
           /\ chunk_lines' = chunk_lines
           /\ front' = front
           /\ back' = back
           /\ ~panicked'
      /\ pass'.tick = pass.tick =>
           /\ Len(samples') >= Len(samples)
           /\ SubSeq(samples', 1, Len(samples)) = samples
      /\ (pass'.tick # pass.tick /\ ~drawn'.stopped) =>
           /\ entry' = samples
           /\ Len(segs') = Len(samples) - 1
           /\ \A k \in 1 .. Len(segs') :
                /\ segs'[k].start = samples[k]
                /\ segs'[k].end = samples[k + 1] ]_vars

\* C13 witness: a tick drained two frames and returned without a draw; the
\* tick after it drew, and its batch was the seed and the two frames.
TransientKeepsPendingWitness ==
  /\ acq.after_skip
  /\ acq.last = "Ok"
  /\ main_pc = "idle"
  /\ ~panicked
  /\ Len(appended) = 2
  /\ entry = << Origin >> \o appended
  /\ Len(segs) = 2

\* C14: when get_current_texture returns a hard error, redraw abandons the
\* frame: no line generation, no upload, no pass and no swap happen, the
\* error is what redraw returns, and no further acquisition follows it.
HardErrorAbandonsFrame ==
  /\ [][ Acquires({ "OutOfMemory" }) =>
           /\ acq'.ret = "Err"
           /\ UNCHANGED << samples, chunk_lines, lines, made, chunks, total_time >>
           /\ UNCHANGED << front, back, pass, written, drawn, entry, segs >> ]_vars
  /\ [][ acq.ret = "Err" => acq' = acq ]_vars

\* C14 witness: the second tick met OutOfMemory after the first had drawn.
HardErrorAbandonsFrameWitness ==
  /\ acq.last = "OutOfMemory"
  /\ acq.ret = "Err"
  /\ acq.n = 1
  /\ drawn.n = 2
  /\ Len(segs) = 1
  /\ panicked

\* C15 as stated: redraw makes at most one acquisition attempt per tick.
AtMostOneAcquisitionPerTick == acq.n <= 1

\* C15, amended: Timeout and Outdated are not retried inside a tick: the
\* tick's frame is skipped and redraw returns.  Lost is: the surface is
\* reconfigured and the acquisition attempted again in the same tick, so a
\* tick makes one attempt and one more for each Lost it met.
OnlyLostIsRetried ==
  /\ [](acq.n = acq.lost + (IF acq.last \in { "none", "Lost" } THEN 0 ELSE 1))
  /\ [][ (Acquires(Acquired) /\ acq.n >= 1) => acq.last = "Lost" ]_vars
  /\ [][ Acquires({ "Timeout", "Outdated" }) =>
           /\ main_pc' = "idle"
           /\ acq'.ret = "Ok"
           /\ UNCHANGED << samples, pass, front, back >> ]_vars
  /\ [][ Acquires({ "Lost" }) =>
           /\ main_pc' = "redraw"
           /\ acq'.ret = "none"
           /\ UNCHANGED << samples, pass, front, back >> ]_vars

\* C15 witness: a tick that met Lost, acquired again and met Timeout.
OnlyLostIsRetriedWitness ==
  /\ acq.n = 2
  /\ acq.lost = 1
  /\ acq.last = "Timeout"
  /\ acq.ret = "Ok"
  /\ main_pc = "idle"

\* C16: the decay surfaces are reallocated and window_size is updated only
\* by a step taken between two ticks, never between the start of a tick's
\* drain and the end of its redraw; a Resized event that arrives while a
\* tick runs changes neither, and is handled after the tick has ended.
ResizeOnlyBetweenFrames ==
  /\ [][ ( \/ window_size' # window_size
           \/ resizes' # resizes
           \/ front'.read[2] # front.read[2]
           \/ back'.read[2] # back.read[2] ) =>
           /\ main_pc = "idle"
           /\ main_pc' = "idle"
           /\ resize_events' = resize_events - 1
           /\ window_size' = inner_size ]_vars
  /\ [][ resize_events' > resize_events =>
           UNCHANGED << window_size, front, back, resizes, pass, main_pc >> ]_vars
  /\ [][ (main_pc # "idle" /\ main_pc' # "idle") =>
           UNCHANGED << window_size, resizes >> ]_vars

\* C16 witness: a Resized event arrived while a tick was running; the tick
\* ended, and only then was the event handled.
ResizeOnlyBetweenFramesWitness ==
  /\ mid_frame
  /\ resizes = 1
  /\ resize_events = 0
  /\ main_pc = "idle"
  /\ window_size = inner_size
  /\ window_size # << 360, 360 >>
  /\ front.read = << "a", 1 >>

\* C17: pack16snorm clamps to [-1, 1] and rounds to the nearest level.  The
\* value unpacked from the half-word is within half a step of 1/32767 of
\* the clamped input, so within one step of every x in [-1, 1]; an x above
\* 1 packs to the half-word of 1.0, which is 32767, and an x below -1 to
\* the half-word of -1.0.
PackRoundTrip ==
  snorm.pc = "done" =>
    LET num == snorm.x[1]
        den == snorm.x[2]
        err == snorm.back * den - 32767 * Clamp(num, -den, den)
    IN /\ 2 * err <= den
       /\ 2 * err >= -den
       /\ (num >= -den /\ num <= den) =>
            /\ snorm.back * den - 32767 * num <= den
            /\ snorm.back * den - 32767 * num >= -den
       /\ num > den => snorm.word = pack16snorm(den, den) /\ snorm.back = 32767
       /\ num < -den => snorm.word = pack16snorm(-den, den) /\ snorm.back = -32767

\* C17 witness: 2.0 was packed and unpacked, and reads as 1.0.
PackRoundTripWitness ==
  /\ snorm.pc = "done"
  /\ snorm.x = << 2, 1 >>
  /\ snorm.word = 32767
  /\ snorm.back = 32767

\* the windows of the last generate_chunks that tile i accepted, in the
\* order they were emitted
accepted_by(i) ==
  SelectSeq([ k \in 1 .. drawn.batch_size |-> k ],
            LAMBDA k : i \in chunk_tiles[entry[k], entry[k + 1]])

\* C18: after every generate_chunks the flat line buffer is the buckets of
\* this frame joined in row-major tile order: for every tile i the places
\* offset[i] .. offset[i] + count[i] - 1 hold exactly the segments tile i
\* accepted in this frame, in emission order; the buffer is as long as the
\* counts together; and every bucket is empty, so nothing of an earlier
\* frame is in the buffer.
LineBufferIsBucketsInTileOrder ==
  /\ chunk_lines = drained
  /\ Len(made) = drawn.batch_size
  /\ \A i \in Tiles :
       /\ dir_offset(i) + dir_count(i) <= Len(lines)
       /\ SubSeq(lines, dir_offset(i) + 1, dir_offset(i) + dir_count(i)) = accepted_by(i)
  /\ Len(lines) = dir_offset(255) + dir_count(255)
  /\ \A j \in 1 .. Len(lines) : made[lines[j]] = line_data(entry, lines[j])

\* C18 witness: a frame after an earlier one, in which a tile past the
\* first accepted several segments and tiles after it accepted some.
LineBufferIsBucketsInTileOrderWitness ==
  /\ base > 0
  /\ ~panicked
  /\ \E i \in Tiles :
       /\ dir_offset(i) > 0
       /\ dir_count(i) >= 2
       /\ lines[dir_offset(i) + 1] < lines[dir_offset(i) + 2]
       /\ dir_offset(i) + dir_count(i) < Len(lines)

\* C19: App::update never waits on the queue: while it runs its next round
\* can always be taken.  A round that finds a frame appends it to the
\* backlog and goes on; the round that finds the queue empty returns, and
\* no other does, however many frames were popped; and on return the frames
\* appended include every frame that was queued when the update began.
UpdateDrainsWithoutWaiting ==
  /\ []((main_pc = "update" /\ ~panicked) => ENABLED Update)
  /\ [][ (main_pc = "update" /\ main_pc' = "redraw") =>
           /\ sample_buf = << >>
           /\ Len(appended) >= mark
           /\ SubSeq(appended, 1, mark) = SubSeq(pushed, 1, mark)
           /\ UNCHANGED << sample_buf, appended, samples >> ]_vars
  /\ [][ (main_pc = "update" /\ sample_buf # << >> /\ main_pc' # main_pc) =>
           FALSE ]_vars
  /\ [][ appended' # appended =>
           /\ main_pc = "update"
           /\ main_pc' = "update"
           /\ sample_buf # << >>
           /\ sample_buf' = Tail(sample_buf)
           /\ appended' = Append(appended, Head(sample_buf))
           /\ samples' = Append(samples, Head(sample_buf)) ]_vars

\* C19 witness: an update that began with one frame queued has popped it and
\* a frame pushed while it ran, and now finds the queue empty.
UpdateDrainsWithoutWaitingWitness ==
  /\ main_pc = "update"
  /\ mark = 1
  /\ Len(appended) = 2
  /\ sample_buf = << >>
  /\ samples = << Origin >> \o appended

\* C20: in every audio callback the producer neither blocks nor retries:
\* its next round can always be taken, and each round moves on to later
\* frames with one push tried, refused or not.  Every frame is copied to
\* the output; at the end of the callback one Overrun notification is sent
\* if a push of this callback was refused and none otherwise, and none is
\* sent at any other time.  Handling a notification changes nothing of the
\* queue, the backlog, the buckets, the line buffer or the surfaces.
ProducerNeitherBlocksNorRetries ==
  /\ []((audio.pc = "loop" /\ ~panicked) => ENABLED (CallbackFrame \/ CallbackEnd))
  /\ [][ (audio.pc = "loop" /\ audio'.pc = "loop" /\ audio' # audio) =>
           /\ audio'.i > audio.i
           /\ audio'.out = audio'.i
           /\ tried' = tried + 1
           /\ refused' # refused => audio'.overrun ]_vars
  /\ [][ (audio.pc = "loop" /\ audio'.pc = "idle") =>
           /\ audio.out = audio.n
           /\ tried - audio.tried0 = pushes_in(audio.n)
           /\ events' = events + (IF refused > audio.refused0 THEN 1 ELSE 0) ]_vars
  /\ [][ events' > events => (audio.pc = "loop" /\ audio'.pc = "idle") ]_vars
  /\ [][ events' < events =>
           /\ events' = events - 1
           /\ UNCHANGED << sample_buf, pushed, appended, audio, main_pc >>
           /\ UNCHANGED << samples, chunk_lines, lines, made, chunks, total_time >>
           /\ UNCHANGED << window_size, front, back, pass, written, configured >> ]_vars

\* C20 witness: a callback of more than four frames found room for its
\* first push and none for its second, copied all its frames out and sent
\* its notification, which has been handled.
ProducerNeitherBlocksNorRetriesWitness ==
  /\ audio.pc = "idle"
  /\ audio.n > 4
  /\ audio.out = audio.n
  /\ audio.overrun
  /\ refused = audio.refused0 + 1
  /\ tried = audio.tried0 + 2
  /\ events = 0

\* some point of the segment start -> end is nearer than 1/8 to the centre
\* of tile i.  The points tried are start + (a / v.v) * v for a = 0 .. v.v,
\* the point nearest to the centre among them; the squared distance of such
\* a point is (u.u * v.v - 2 * a * u.v + a * a) / v.v.  A segment of no
\* length is its start.
within_reach(start, end, i) ==
  LET u == Sub(chunk_center(i), start)
      v == Sub(end, start)
      vv == Dot(v, v)
      uv == Dot(u, v)
      uu == Dot(u, u)
  IN IF vv = 0 THEN 64 * uu < Unit * Unit
     ELSE \E a \in 0 .. vv : 64 * (uu * vv - 2 * a * uv + a * a) < Unit * Unit * vv

\* the tiles that accept the segment start -> end
accepting(start, end) == { i \in Tiles : accepts(start, end, i) }

\* C21: for every segment and every tile, the tile's bucket receives the
\* segment if and only if the distance from the tile's centre to the
\* closest point of the segment is strictly below 1/8, a threshold that no
\* configured value enters; a segment of no length counts as its start; and
\* the bucket receives a copy of the segment's Line.
TileTestIsInclusion ==
  seg.pc = "done" =>
    seg.bucket = IF within_reach(seg.start, seg.end, seg.tile)
                   THEN << seg.line >>
                   ELSE << >>

\* C21 witness: the test of a long segment on a tile that accepts it, where
\* other segments are accepted by no tile, by one tile and by many.
TileTestIsInclusionWitness ==
  /\ seg.pc = "done"
  /\ seg.start = << -Unit, -Unit >>
  /\ seg.end = << Unit, Unit >>
  /\ seg.tile = 16 * 8 + 8
  /\ seg.bucket = << seg.line >>
  /\ accepting(Far, Far) = { }
  /\ accepting(AtCentre, AtCentre) = { 16 * 8 + 8 }
  /\ Cardinality(accepting(seg.start, seg.end)) > 16

PackedLinePreservesSegment ==
  seg.pc = "done" =>
    \A axis \in 1 .. 2 :
      LET off == Unit * seg.back[axis] - 32767 * seg.end[axis]
      IN off <= 2 * Unit /\ off >= -2 * Unit

====
